---- MODULE Spec2Model ----
(***************************************************************************)
(* A model of the DNS Made Easy client (client.go): the response           *)
(* classifier checkRespForError, EnumerateDomains, and the domain-ID cache *)
(* behind Client.IdForDomain, called by one or several goroutines against  *)
(* a provider whose set of domains changes over time.                      *)
(***************************************************************************)
EXTENDS Integers, Sequences, FiniteSets, TLC

VARIABLES
    listing,        \* the provider: domain name -> provider-assigned ID, 0 when the name is not listed
    nextId,         \* the provider: the ID the next created domain gets
    addedAfter,     \* history: the name's current provider entry was created while the client's cache was populated
    zoneIdCache,    \* Client.zoneIdCache
    pc,             \* per caller: position inside IdForDomain
    domain,         \* per caller: the argument of IdForDomain
    justPopulated,  \* per caller: the local justPopulated
    domainMap,      \* per caller: the local domainMap returned by EnumerateDomains
    err,            \* per caller: the local err returned by EnumerateDomains
    ret,            \* per caller: what IdForDomain returned
    enums,          \* history, per caller: EnumerateDomains calls made during the current call
    cache0,         \* history, per caller: zoneIdCache when the current call started
    listed0,        \* history, per caller: the provider's entry for the name when the call started
    touched,        \* history, per caller: the provider's entry for the name changed during the call
    resp,           \* the classifier's input: a response and the transport error that came with it
    result          \* the classifier's output for resp

vars == <<listing, nextId, addedAfter, zoneIdCache, pc, domain, justPopulated,
          domainMap, err, ret, enums, cache0, listed0, touched, resp, result>>

clientVars == <<listing, nextId, addedAfter, zoneIdCache, pc, domain, justPopulated,
                domainMap, err, ret, enums, cache0, listed0, touched>>

----------------------------------------------------------------------------
(* Bounds *)

\* provider IDs are 1..MaxId: the provider creates at most MaxId domains
MaxId == 2
\* the longest `error` array of a response body
MaxErrLen == 2

Names == {"a.test", "b.test"}
\* the goroutines calling IdForDomain on the one client
Callers == {"g1", "g2"}

----------------------------------------------------------------------------
(* Go values *)

\* a Go error value: its dynamic type and its Error() text; NoErr is nil
NoErr == [type |-> "nil", msg |-> ""]
\* errors.New / fmt.Errorf without %w: an *errors.errorString
NewError(msg) == [type |-> "errorString", msg |-> msg]
\* an error handed over by the HTTP library
TransportErr == [type |-> "transport", msg |-> "timeout"]

\* a map[string]int: nil, or a map with entries m (a function on a subset of Names)
EmptyEntries == [n \in {} |-> 0]
NilMap == [isNil |-> TRUE, m |-> EmptyEntries]
MakeMap(entries) == [isNil |-> FALSE, m |-> entries]
\* v, ok := m[key]: reading a nil map yields ok = false
HasKey(gomap, key) == key \in DOMAIN gomap.m
ValueOf(gomap, key) == IF HasKey(gomap, key) THEN gomap.m[key] ELSE 0

----------------------------------------------------------------------------
(* JSON bodies *)

\* the value of the body's `error` field
Absent == [t |-> "absent", elems |-> <<>>]
JsonScalarKinds == {"null", "string", "number", "object"}
StrElem(s) == [t |-> "string", s |-> s]
NumElem == [t |-> "number", s |-> ""]
ElemStrings == {"a", "b", ""}
Elems == {StrElem(s) : s \in ElemStrings} \cup {NumElem}
ErrArray(elems) == [t |-> "array", elems |-> elems]
SeqsUpTo(S, n) == UNION {[1..k -> S] : k \in 0..n}
ErrVals == {Absent} \cup {[t |-> k, elems |-> <<>>] : k \in JsonScalarKinds}
           \cup {ErrArray(es) : es \in SeqsUpTo(Elems, MaxErrLen)}

\* a body: not JSON at all, the JSON null, a JSON value that is no object, or an
\* object with its `error` field and its `data` field (a list of Domain)
NoData == <<>>
Body(kind, errval, data) == [kind |-> kind, error |-> errval, data |-> data]
InvalidBody == Body("invalid", Absent, NoData)
NullBody == Body("null", Absent, NoData)
NonObjectBody == Body("nonobject", Absent, NoData)
ObjectBody(errval, data) == Body("object", errval, data)

Response(terr, status, body) == [terr |-> terr, status |-> status, body |-> body]

----------------------------------------------------------------------------
(* checkRespForError *)

\* the outcome of a Go call: it returned err (NoErr: success), or it panicked
Returned(e) == [kind |-> "return", err |-> e]
Panicked == [kind |-> "panic", err |-> NoErr]
NoResult == [kind |-> "none", err |-> NoErr]

\* fmt's %d
DigitChar(d) ==
    CASE d = 0 -> "0" [] d = 1 -> "1" [] d = 2 -> "2" [] d = 3 -> "3" [] d = 4 -> "4"
      [] d = 5 -> "5" [] d = 6 -> "6" [] d = 7 -> "7" [] d = 8 -> "8" [] d = 9 -> "9"
RECURSIVE FormatNat(_)
FormatNat(n) == IF n < 10 THEN DigitChar(n) ELSE FormatNat(n \div 10) \o DigitChar(n % 10)
FormatInt(n) == IF n < 0 THEN "-" \o FormatNat(-n) ELSE FormatNat(n)

\* json.Unmarshal(resp.Body(), &data) into a map[string]interface{}: err == nil
\* for an object and for null (which leaves data nil)
UnmarshalOk(body) == body.kind \in {"object", "null"}
\* data["error"] != nil: the key is there and its value is not the JSON null
ErrorFieldNonNil(body) == body.kind = "object" /\ body.error.t \notin {"absent", "null"}
\* data["error"].([]interface{}) and x.(string): the assertion panics on any other type
IsArray(errval) == errval.t = "array"
IsString(elem) == elem.t = "string"

\* the loop of lines 66-68 over resp_errors[from..]: idx counts from 0
RECURSIVE JoinErrorsFrom(_, _)
JoinErrorsFrom_NoIndex(elems, i) ==
    IF i > Len(elems) THEN ""
    ELSE elems[i].s \o "\n" \o JoinErrorsFrom(elems, i + 1)
JoinErrorsFrom(elems, i) ==
    IF i > Len(elems) THEN ""
    ELSE FormatInt(i - 1) \o ": " \o elems[i].s \o "\n" \o JoinErrorsFrom(elems, i + 1)

\* lines 61-71, for a non-empty array
ErrorFromArray(elems) ==
    IF Len(elems) = 1
    THEN IF IsString(elems[1]) THEN Returned(NewError(elems[1].s)) ELSE Panicked
    ELSE IF \A i \in 1..Len(elems) : IsString(elems[i])
         THEN Returned(NewError(JoinErrorsFrom(elems, 1)))
         ELSE Panicked

\* lines 76-82
IsHttpError_Off(status) == status < 200 \/ status > 300
IsHttpError(status) == status < 200 \/ status >= 300
StatusCheck(status) ==
    IF IsHttpError(status)
    THEN Returned(NewError("request returned http error code " \o FormatInt(status)))
    ELSE Returned(NoErr)

\* lines 51-73: the structured error of the body, NoResult when it has none
BodyCheck(body) ==
    IF UnmarshalOk(body) /\ ErrorFieldNonNil(body)
    THEN IF ~IsArray(body.error) THEN Panicked
         ELSE IF Len(body.error.elems) > 0 THEN ErrorFromArray(body.error.elems)
         ELSE NoResult
    ELSE NoResult

CheckRespForError_BodyFirst(r) ==
    IF BodyCheck(r.body) # NoResult THEN BodyCheck(r.body)
    ELSE IF r.terr # NoErr THEN Returned(r.terr)
    ELSE StatusCheck(r.status)
CheckRespForError(r) ==
    IF r.terr # NoErr THEN Returned(r.terr)
    ELSE IF BodyCheck(r.body) # NoResult THEN BodyCheck(r.body)
    ELSE StatusCheck(r.status)

\* the classifier's inputs
Statuses == {199, 200, 204, 299, 300, 404, 500}
Bodies == {InvalidBody, NullBody, NonObjectBody} \cup {ObjectBody(e, NoData) : e \in ErrVals}
Responses == {Response(t, s, b) : t \in {NoErr, TransportErr}, s \in Statuses, b \in Bodies}

----------------------------------------------------------------------------
(* The provider, and EnumerateDomains *)

Domain(id, name) == [ID |-> id, Name |-> name]

\* the `data` array of GET /dns/managed/: the listed domains, in the order of their IDs
RECURSIVE DomainsFrom(_, _)
DomainsFrom(l, id) ==
    IF id > MaxId THEN <<>>
    ELSE (IF \E n \in Names : l[n] = id
          THEN <<Domain(id, CHOOSE n \in Names : l[n] = id)>>
          ELSE <<>>) \o DomainsFrom(l, id + 1)
ListingBody(l) == ObjectBody(Absent, DomainsFrom(l, 1))

\* what a GET of the listing can come back with: the listing, a transport error,
\* an `error` array, a bare HTTP status, or an `error` field that is no array
ProviderErrors == {"Domain not found"}
EnumResponses(l) ==
    {Response(NoErr, 200, ListingBody(l)),
     Response(TransportErr, 0, InvalidBody),
     Response(NoErr, 500, InvalidBody),
     Response(NoErr, 200, ObjectBody([t |-> "string", elems |-> <<>>], NoData))}
    \cup {Response(NoErr, 404, ObjectBody(ErrArray(<<StrElem(e)>>), NoData)) : e \in ProviderErrors}

\* SetResult(&respDomains): the decoded `data` of an object body, else nothing
ResultDomains(r) == IF r.body.kind = "object" THEN r.body.data ELSE <<>>

\* lines 141-143: domains[domain.Name] = domain.ID over respDomains.Domains
RECURSIVE MapFromDomains(_, _)
MapFromDomains(ds, entries) ==
    IF ds = <<>> THEN entries
    ELSE MapFromDomains(Tail(ds),
            [n \in DOMAIN entries \cup {Head(ds).Name} |->
                IF n = Head(ds).Name THEN Head(ds).ID ELSE entries[n]])

\* EnumerateDomains on response r: (map, err), or a panic out of checkRespForError
EnumerateDomains(r) ==
    LET chk == CheckRespForError(r) IN
    IF chk.kind = "panic" THEN [kind |-> "panic", map |-> NilMap, err |-> NoErr]
    ELSE IF chk.err # NoErr THEN [kind |-> "return", map |-> NilMap, err |-> chk.err]
    ELSE [kind |-> "return", map |-> MakeMap(MapFromDomains(ResultDomains(r), EmptyEntries)),
          err |-> NoErr]

\* the callers in the middle of a call for name n
Asking(n) == {c \in Callers : pc[c] \notin {"idle", "done"} /\ domain[c] = n}

\* a domain is created at the provider, which assigns it the next ID
AddDomain(n) ==
    /\ listing[n] = 0
    /\ nextId <= MaxId
    /\ listing' = [listing EXCEPT ![n] = nextId]
    /\ nextId' = nextId + 1
    /\ addedAfter' = [addedAfter EXCEPT ![n] = ~zoneIdCache.isNil]
    /\ touched' = [c \in Callers |-> touched[c] \/ c \in Asking(n)]
    /\ UNCHANGED <<zoneIdCache, pc, domain, justPopulated, domainMap, err, ret,
                   enums, cache0, listed0, resp, result>>

\* a domain is deleted at the provider
DeleteDomain(n) ==
    /\ listing[n] # 0
    /\ listing' = [listing EXCEPT ![n] = 0]
    /\ addedAfter' = [addedAfter EXCEPT ![n] = FALSE]
    /\ touched' = [c \in Callers |-> touched[c] \/ c \in Asking(n)]
    /\ UNCHANGED <<nextId, zoneIdCache, pc, domain, justPopulated, domainMap, err, ret,
                   enums, cache0, listed0, resp, result>>

----------------------------------------------------------------------------
(* Client.IdForDomain, one step per statement that reads or writes shared state *)

NoRet == [kind |-> "none", id |-> 0, err |-> NoErr]
RetValue(id, e) == [kind |-> "return", id |-> id, err |-> e]
RetPanic == [kind |-> "panic", id |-> 0, err |-> NoErr]
NotFound == NewError("Domain not found")

\* IdForDomain(d) is called: line 150
Call(c, d) ==
    /\ pc[c] = "idle"
    /\ pc' = [pc EXCEPT ![c] = "checkNil"]
    /\ domain' = [domain EXCEPT ![c] = d]
    /\ justPopulated' = [justPopulated EXCEPT ![c] = FALSE]
    /\ enums' = [enums EXCEPT ![c] = 0]
    /\ cache0' = [cache0 EXCEPT ![c] = zoneIdCache]
    /\ listed0' = [listed0 EXCEPT ![c] = listing[d]]
    /\ touched' = [touched EXCEPT ![c] = FALSE]
    /\ UNCHANGED <<listing, nextId, addedAfter, zoneIdCache, domainMap, err, ret, resp, result>>

\* a call that starts when no other call on the client is in progress
SeqCall(c, d) ==
    /\ \A o \in Callers : pc[o] = "idle"
    /\ Call(c, d)

\* line 151: if c.zoneIdCache == nil
CheckNil(c) ==
    /\ pc[c] = "checkNil"
    /\ pc' = [pc EXCEPT ![c] = IF zoneIdCache.isNil THEN "populate" ELSE "lookup"]
    /\ UNCHANGED <<listing, nextId, addedAfter, zoneIdCache, domain, justPopulated,
                   domainMap, err, ret, enums, cache0, listed0, touched, resp, result>>

\* lines 152 and 167: domainMap, err := c.EnumerateDomains(), answered by the
\* provider from its listing of that moment
Enumerate(c) ==
    /\ pc[c] \in {"populate", "refresh"}
    /\ \E r \in EnumResponses(listing) :
         LET e == EnumerateDomains(r) IN
         /\ enums' = [enums EXCEPT ![c] = @ + 1]
         /\ IF e.kind = "panic"
            THEN /\ pc' = [pc EXCEPT ![c] = "done"]
                 /\ ret' = [ret EXCEPT ![c] = RetPanic]
                 /\ UNCHANGED <<domainMap, err>>
            ELSE /\ pc' = [pc EXCEPT ![c] = IF pc[c] = "populate" THEN "populated" ELSE "refreshed"]
                 /\ domainMap' = [domainMap EXCEPT ![c] = e.map]
                 /\ err' = [err EXCEPT ![c] = e.err]
                 /\ UNCHANGED ret
    /\ UNCHANGED <<listing, nextId, addedAfter, zoneIdCache, domain, justPopulated,
                   cache0, listed0, touched, resp, result>>

\* lines 153-157 and 168-172: return the error, or store the map and set justPopulated
StoreMap_BeforeErrCheck(c) ==
    /\ pc[c] \in {"populated", "refreshed"}
    /\ zoneIdCache' = domainMap[c]
    /\ IF err[c] # NoErr
       THEN /\ pc' = [pc EXCEPT ![c] = "done"]
            /\ ret' = [ret EXCEPT ![c] = RetValue(0, err[c])]
            /\ UNCHANGED justPopulated
       ELSE /\ pc' = [pc EXCEPT ![c] = IF pc[c] = "populated" THEN "lookup" ELSE "lookupAgain"]
            /\ justPopulated' = [justPopulated EXCEPT ![c] = TRUE]
            /\ UNCHANGED ret
    /\ UNCHANGED <<listing, nextId, addedAfter, domain, domainMap, err, enums,
                   cache0, listed0, touched, resp, result>>
StoreMap_NoFlag(c) ==
    /\ pc[c] \in {"populated", "refreshed"}
    /\ IF err[c] # NoErr
       THEN /\ pc' = [pc EXCEPT ![c] = "done"]
            /\ ret' = [ret EXCEPT ![c] = RetValue(0, err[c])]
            /\ UNCHANGED zoneIdCache
       ELSE /\ pc' = [pc EXCEPT ![c] = IF pc[c] = "populated" THEN "lookup" ELSE "lookupAgain"]
            /\ zoneIdCache' = domainMap[c]
            /\ UNCHANGED ret
    /\ UNCHANGED <<listing, nextId, addedAfter, domain, justPopulated, domainMap, err, enums,
                   cache0, listed0, touched, resp, result>>
StoreMap(c) ==
    /\ pc[c] \in {"populated", "refreshed"}
    /\ IF err[c] # NoErr
       THEN /\ pc' = [pc EXCEPT ![c] = "done"]
            /\ ret' = [ret EXCEPT ![c] = RetValue(0, err[c])]
            /\ UNCHANGED <<zoneIdCache, justPopulated>>
       ELSE /\ pc' = [pc EXCEPT ![c] = IF pc[c] = "populated" THEN "lookup" ELSE "lookupAgain"]
            /\ zoneIdCache' = domainMap[c]
            /\ justPopulated' = [justPopulated EXCEPT ![c] = TRUE]
            /\ UNCHANGED ret
    /\ UNCHANGED <<listing, nextId, addedAfter, domain, domainMap, err, enums,
                   cache0, listed0, touched, resp, result>>

\* line 166: if !justPopulated
NeedsRefresh_Never(jp) == FALSE
NeedsRefresh_Always(jp) == TRUE
NeedsRefresh(jp) == ~jp

\* lines 160-166: zoneId, ok := c.zoneIdCache[domain]
Lookup(c) ==
    /\ pc[c] = "lookup"
    /\ IF HasKey(zoneIdCache, domain[c])
       THEN /\ pc' = [pc EXCEPT ![c] = "done"]
            /\ ret' = [ret EXCEPT ![c] = RetValue(ValueOf(zoneIdCache, domain[c]), NoErr)]
       ELSE /\ pc' = [pc EXCEPT ![c] = IF NeedsRefresh(justPopulated[c])
                                       THEN "refresh" ELSE "lookupAgain"]
            /\ UNCHANGED ret
    /\ UNCHANGED <<listing, nextId, addedAfter, zoneIdCache, domain, justPopulated,
                   domainMap, err, enums, cache0, listed0, touched, resp, result>>

\* lines 174-180: the second zoneId, ok := c.zoneIdCache[domain], then "Domain not found"
LookupAgain(c) ==
    /\ pc[c] = "lookupAgain"
    /\ pc' = [pc EXCEPT ![c] = "done"]
    /\ ret' = [ret EXCEPT ![c] =
                 IF HasKey(zoneIdCache, domain[c])
                 THEN RetValue(ValueOf(zoneIdCache, domain[c]), NoErr)
                 ELSE RetValue(0, NotFound)]
    /\ UNCHANGED <<listing, nextId, addedAfter, zoneIdCache, domain, justPopulated,
                   domainMap, err, enums, cache0, listed0, touched, resp, result>>

\* the caller takes the result; the call's locals are gone
Finish(c) ==
    /\ pc[c] = "done"
    /\ pc' = [pc EXCEPT ![c] = "idle"]
    /\ domain' = [domain EXCEPT ![c] = CHOOSE n \in Names : TRUE]
    /\ justPopulated' = [justPopulated EXCEPT ![c] = FALSE]
    /\ domainMap' = [domainMap EXCEPT ![c] = NilMap]
    /\ err' = [err EXCEPT ![c] = NoErr]
    /\ ret' = [ret EXCEPT ![c] = NoRet]
    /\ enums' = [enums EXCEPT ![c] = 0]
    /\ cache0' = [cache0 EXCEPT ![c] = NilMap]
    /\ listed0' = [listed0 EXCEPT ![c] = 0]
    /\ touched' = [touched EXCEPT ![c] = FALSE]
    /\ UNCHANGED <<listing, nextId, addedAfter, zoneIdCache, resp, result>>

----------------------------------------------------------------------------
(* Specifications *)

\* GetClient: a client with a nil cache; the provider lists nothing yet
InitClient ==
    /\ listing = [n \in Names |-> 0]
    /\ nextId = 1
    /\ addedAfter = [n \in Names |-> FALSE]
    /\ zoneIdCache = NilMap
    /\ pc = [c \in Callers |-> "idle"]
    /\ domain = [c \in Callers |-> CHOOSE n \in Names : TRUE]
    /\ justPopulated = [c \in Callers |-> FALSE]
    /\ domainMap = [c \in Callers |-> NilMap]
    /\ err = [c \in Callers |-> NoErr]
    /\ ret = [c \in Callers |-> NoRet]
    /\ enums = [c \in Callers |-> 0]
    /\ cache0 = [c \in Callers |-> NilMap]
    /\ listed0 = [c \in Callers |-> 0]
    /\ touched = [c \in Callers |-> FALSE]

Init ==
    /\ InitClient
    /\ resp = Response(NoErr, 200, NullBody)
    /\ result = NoResult

Step(c) ==
    \/ CheckNil(c)
    \/ Enumerate(c)
    \/ StoreMap(c)
    \/ Lookup(c)
    \/ LookupAgain(c)
    \/ Finish(c)

Provider ==
    \/ \E n \in Names : AddDomain(n)
    \/ \E n \in Names : DeleteDomain(n)

\* calls on the client follow one another
Next ==
    \/ \E c \in Callers, d \in Names : SeqCall(c, d)
    \/ \E c \in Callers : Step(c)
    \/ Provider

Spec == Init /\ [][Next]_vars

\* calls on the client overlap: IdForDomain takes no lock, so the reads and
\* writes of c.zoneIdCache by different goroutines race, and each of them sees or
\* overwrites whatever the order of the steps leaves in the field
ConcNext ==
    \/ \E c \in Callers, d \in Names : Call(c, d)
    \/ \E c \in Callers : Step(c)
    \/ Provider

ConcSpec == Init /\ [][ConcNext]_vars

\* the classifier alone, on every response of Responses
ClassifyInit ==
    /\ InitClient
    /\ resp \in Responses
    /\ result = NoResult

Classify ==
    /\ result = NoResult
    /\ result' = CheckRespForError(resp)
    /\ UNCHANGED <<resp, clientVars>>

NextResponse ==
    /\ result # NoResult
    /\ resp' \in Responses
    /\ result' = NoResult
    /\ UNCHANGED clientVars

ClassifyNext == Classify \/ NextResponse

ClassifySpec == ClassifyInit /\ [][ClassifyNext]_vars

----------------------------------------------------------------------------
(* Properties of checkRespForError, under ClassifySpec *)

Classified == result # NoResult
StringArray(errval) ==
    /\ errval.t = "array"
    /\ Len(errval.elems) > 0
    /\ \A i \in 1..Len(errval.elems) : errval.elems[i].t = "string"
HasStructuredError(body) == body.kind = "object" /\ StringArray(body.error)
\* no body that is an object, no `error` field in it, or an empty `error` array
NoStructuredError(body) ==
    \/ body.kind # "object"
    \/ body.error.t = "absent"
    \/ body.error.t = "array" /\ Len(body.error.elems) = 0
\* an `error` field that is there and is no array of strings
MalformedError(body) ==
    /\ body.kind = "object"
    /\ \/ body.error.t \in {"string", "number", "object"}
       \/ body.error.t = "array" /\ \E i \in 1..Len(body.error.elems) : body.error.elems[i].t # "string"

\* "<index>: <element>\n" for the first k elements, index from 0
RECURSIVE IndexedLines(_, _)
IndexedLines(elems, k) ==
    IF k = 0 THEN ""
    ELSE IndexedLines(elems, k - 1) \o ToString(k - 1) \o ": " \o elems[k].s \o "\n"
ExpectedMessage(elems) ==
    IF Len(elems) = 1 THEN elems[1].s ELSE IndexedLines(elems, Len(elems))
StatusOutcome(status) ==
    IF status >= 200 /\ status <= 299
    THEN Returned(NoErr)
    ELSE Returned(NewError("request returned http error code " \o ToString(status)))

\* C3: a body whose `error` field is a non-empty array of strings, with no
\* transport error, gives an error at every status code; its message is the
\* element itself for one element, else "<index>: <element>\n" for each element
\* in order from index 0 (["a","b"] gives "0: a\n1: b\n").
C3_StructuredErrorMessage ==
    (Classified /\ resp.terr = NoErr /\ HasStructuredError(resp.body)) =>
        /\ result = Returned(NewError(ExpectedMessage(resp.body.error.elems)))
        /\ result.err # NoErr
        /\ (resp.body.error.elems = <<StrElem("a"), StrElem("b")>>
               => result.err.msg = "0: a\n1: b\n")
        /\ (resp.body.error.elems = <<StrElem("a")>> => result.err.msg = "a")

C3_Witness ==
    /\ Classified
    /\ resp = Response(NoErr, 200, ObjectBody(ErrArray(<<StrElem("a"), StrElem("b")>>), NoData))
    /\ result = Returned(NewError("0: a\n1: b\n"))

\* C4: with no transport error and no structured error in the body, the result
\* is success exactly when the status is in [200,299], and otherwise the error
\* "request returned http error code <status>"; a body that fails to parse is
\* not an error.
C4_StatusDecides ==
    (Classified /\ resp.terr = NoErr /\ NoStructuredError(resp.body)) =>
        /\ result = StatusOutcome(resp.status)
        /\ (result.err = NoErr <=> resp.status \in 200..299)

C4_Witness ==
    /\ Classified
    /\ resp = Response(NoErr, 404, InvalidBody)
    /\ result = Returned(NewError("request returned http error code 404"))

\* C5: a transport error handed to checkRespForError comes back unchanged,
\* whatever the body and the status code are.
C5_TransportErrorUnchanged ==
    (Classified /\ resp.terr # NoErr) => result = Returned(resp.terr)

C5_Witness ==
    /\ Classified
    /\ resp = Response(TransportErr, 500, ObjectBody(ErrArray(<<StrElem("a")>>), NoData))
    /\ result = Returned(TransportErr)

\* C8: checkRespForError returns success or an error on every input; when the
\* `error` field is there but is no non-empty array of strings, the status code
\* alone decides the result.
C8_NeverAborts ==
    Classified =>
        /\ result.kind = "return"
        /\ (resp.terr = NoErr /\ MalformedError(resp.body)) => result = StatusOutcome(resp.status)

----------------------------------------------------------------------------
(* Properties of IdForDomain *)

Done(c) == pc[c] = "done"
\* the call returned, and none of its enumerations failed
Succeeding(c) == Done(c) /\ ret[c].kind = "return" /\ err[c] = NoErr
\* the provider did not list the name at any moment of the call
NeverListed(c) == listed0[c] = 0 /\ ~touched[c]
\* the provider listed the name under one ID during the whole call
ListedThroughout(c) == listed0[c] # 0 /\ ~touched[c]
Cached0(c) == HasKey(cache0[c], domain[c])

OneEnumerationThenNotFound(c) == enums[c] = 1 /\ ret[c] = RetValue(0, NotFound)

\* C1 as stated: a call for a name the provider does not list, all enumerations
\* succeeding, makes exactly one enumeration and returns "Domain not found",
\* whatever the cache held when it started; "Domain not found" is never
\* returned without an enumeration in the same call.
C1_UnlistedNameOneEnumeration ==
    \A c \in Callers :
        /\ (Succeeding(c) /\ NeverListed(c)) => OneEnumerationThenNotFound(c)
        /\ (Done(c) /\ ret[c].err = NotFound) => enums[c] >= 1

\* C1 as amended: the same, for a name that is also not in the cache when the
\* call starts.
C1_UnknownNameOneEnumeration ==
    \A c \in Callers :
        /\ (Succeeding(c) /\ NeverListed(c) /\ ~Cached0(c)) => OneEnumerationThenNotFound(c)
        /\ (Done(c) /\ ret[c].err = NotFound) => enums[c] >= 1

\* a miss on a cache that was already populated
C1_Witness ==
    \E c \in Callers :
        /\ Succeeding(c) /\ NeverListed(c) /\ ~Cached0(c)
        /\ ~cache0[c].isNil
        /\ OneEnumerationThenNotFound(c)

ReturnsProviderIdAfterOneEnumeration(c) ==
    enums[c] = 1 /\ ret[c] = RetValue(listed0[c], NoErr)
AddedAfterPopulation(c) ==
    ~cache0[c].isNil /\ ListedThroughout(c) /\ addedAfter[domain[c]]

C6_NotFoundDistinct ==
    \A c \in Callers :
        (Done(c) /\ ret[c].kind = "return") =>
            /\ err[c] # NoErr => ret[c] = RetValue(0, err[c])
            /\ ret[c].err = NotFound => err[c] = NoErr

AtMostOneEnumeration == \A c \in Callers : enums[c] <= 1

\* C9: a call for a name in the populated cache returns the cached ID, makes no
\* enumeration and leaves the cache as it was, whatever the provider lists now;
\* no call makes more than one enumeration.
C9_HitTrustsCache ==
    /\ AtMostOneEnumeration
    /\ \A c \in Callers :
        /\ (Done(c) /\ ~cache0[c].isNil /\ Cached0(c)) =>
              /\ ret[c] = RetValue(cache0[c].m[domain[c]], NoErr)
              /\ enums[c] = 0
              /\ zoneIdCache = cache0[c]

\* a hit on an entry the provider has dropped or given another ID since
C9_Witness ==
    \E c \in Callers :
        /\ Done(c) /\ ~cache0[c].isNil /\ Cached0(c)
        /\ ~touched[c]
        /\ listed0[c] # cache0[c].m[domain[c]]
        /\ ret[c] = RetValue(cache0[c].m[domain[c]], NoErr)

FailedCallKeepsCache ==
    \A c \in Callers :
        /\ (Done(c) /\ err[c] # NoErr) => (ret[c] = RetValue(0, err[c]) /\ zoneIdCache = cache0[c])
        /\ (Done(c) /\ ret[c] = RetPanic) => zoneIdCache = cache0[c]
ReplacedBySuccessfulEnumeration ==
    zoneIdCache' # zoneIdCache =>
        \E c \in Callers :
            /\ pc[c] \in {"populated", "refreshed"}
            /\ err[c] = NoErr
            /\ ~domainMap[c].isNil
            /\ zoneIdCache' = domainMap[c]

\* C10: a call whose enumeration fails leaves the cache as it was when the call
\* started (nil stays nil, a populated cache keeps its entries); the cache is
\* only ever replaced, whole, by the map of a successful enumeration.
C10_FailureKeepsCache ==
    [][ReplacedBySuccessfulEnumeration /\ FailedCallKeepsCache']_vars

\* a failed refresh on a cache that holds an entry
C10_Witness ==
    \E c \in Callers :
        /\ Done(c) /\ err[c] # NoErr
        /\ enums[c] = 1
        /\ ~cache0[c].isNil /\ DOMAIN cache0[c].m # {}
        /\ zoneIdCache = cache0[c]

----------------------------------------------------------------------------
(* Overlapping calls, under ConcSpec *)

\* between its check of the cache and its last read of it
InReadModifyWrite(c) ==
    \/ pc[c] \in {"populate", "populated", "refresh", "refreshed", "lookupAgain"}
    \/ pc[c] = "lookup" /\ justPopulated[c]
\* the caller's next step reads or writes c.zoneIdCache
AccessesCache(c) ==
    \/ pc[c] \in {"checkNil", "lookup", "lookupAgain"}
    \/ pc[c] \in {"populated", "refreshed"} /\ err[c] = NoErr

\* C7: while one caller is between its check of the cache and its re-read of
\* it, no other caller reads or writes the cache.
C7_Serialized ==
    [][\A c, o \in Callers :
          (c # o /\ InReadModifyWrite(c) /\ AccessesCache(o)) => pc'[o] = pc[o]]_vars

\* the map a caller fetched and stored listed the name, and the caller still
\* returned "Domain not found"
LostUpdate ==
    \E c \in Callers :
        /\ Succeeding(c)
        /\ HasKey(domainMap[c], domain[c])
        /\ ret[c] = RetValue(0, NotFound)

====
